---- MODULE Spec2Model ----
(***************************************************************************)
(* The cancer mortality / incidence dashboard of src/app.py.               *)
(*                                                                         *)
(* The state is the module-level state of app.py after import: the two     *)
(* CSV files, the frames loaded from them (with the coerced value column   *)
(* and the "Age Range" column), the two pre-aggregated frames, the clipped *)
(* shapefile, the props of the two controls and the figures of the two     *)
(* graphs.  The actions are the two Dash callbacks and the two control     *)
(* changes a user can make.                                                *)
(*                                                                         *)
(* Text is a sequence of one-character strings, so that Python's string    *)
(* comparison, "in", replace and strip are computed and not assumed.       *)
(* A frame is a sequence of records (one record per row, one field per     *)
(* column).                                                                *)
(***************************************************************************)
EXTENDS Integers, Sequences, FiniteSets, TLC

VARIABLES
    mortality_csv,              \* rows of data/Mortality.csv
    incidence_csv,              \* rows of data/Incidence.csv
    mortality_data,             \* the loaded and cleaned mortality frame
    incidence_data,             \* the loaded and cleaned incidence frame
    incidence_data_aggregated,  \* aggregate_data(incidence_data, "Count")
    mortality_data_aggregated,  \* aggregate_data(mortality_data, "Deaths")
    gdf,                        \* the clipped shapefile
    year_slider,                \* props of dcc.Slider(id="year-slider")
    data_selector,              \* props of dcc.RadioItems(id="data-selector")
    pending,                    \* callbacks triggered and not yet run
    us_map,                     \* figure of dcc.Graph(id="us-map")
    bar_chart                   \* figure of dcc.Graph(id="bar-chart")

vars == <<mortality_csv, incidence_csv, mortality_data, incidence_data,
          incidence_data_aggregated, mortality_data_aggregated, gdf,
          year_slider, data_selector, pending, us_map, bar_chart>>

data_vars == <<mortality_csv, incidence_csv, mortality_data, incidence_data,
               incidence_data_aggregated, mortality_data_aggregated, gdf>>

(***************************************************************************)
(* Bounds of the model.                                                    *)
(***************************************************************************)
\* Longest arbitrary age-group text fed to clean_age_group.
MaxLen == 3
\* Rows of the two CSV files together, in the specification of the views.
MaxRows == 3
\* Rows of the two CSV files together, in the specification of the controls.
UiRows == 2
\* Earliest year of the files, and the number of consecutive years that the
\* files of the controls' specification may hold.
FirstYear == 1999
NumYears == 3

\* NaN, as a number that no cell of a file holds (a cell holds digits or
\* text, so a parsed cell is never negative).
NaN == -1
\* A graph with no figure yet.
None == [figure |-> "None"]

(***************************************************************************)
(* Python str.                                                             *)
(***************************************************************************)
\* Unicode code points of the characters that occur.
CodePoint ==
    (" " :> 32) @@ ("+" :> 43) @@ ("-" :> 45) @@
    ("0" :> 48) @@ ("1" :> 49) @@ ("2" :> 50) @@ ("3" :> 51) @@ ("4" :> 52) @@
    ("5" :> 53) @@ ("6" :> 54) @@ ("7" :> 55) @@ ("8" :> 56) @@ ("9" :> 57) @@
    ("<" :> 60) @@ ("N" :> 78) @@ ("S" :> 83) @@ ("a" :> 97) @@ ("d" :> 100) @@
    ("e" :> 101) @@ ("o" :> 111) @@ ("p" :> 112) @@ ("r" :> 114) @@
    ("s" :> 115) @@ ("t" :> 116) @@ ("u" :> 117) @@ ("y" :> 121)

Digits == {"0", "1", "2", "3", "4", "5", "6", "7", "8", "9"}

\* str < str: lexicographic by code point, a proper prefix is smaller.
RECURSIVE StrLt(_, _)
StrLt(a, b) ==
    IF b = <<>> THEN FALSE
    ELSE IF a = <<>> THEN TRUE
    ELSE IF CodePoint[Head(a)] # CodePoint[Head(b)]
         THEN CodePoint[Head(a)] < CodePoint[Head(b)]
    ELSE StrLt(Tail(a), Tail(b))

\* str <= str
StrLe(a, b) == a = b \/ StrLt(a, b)

\* s.startswith(p)
StartsWith(s, p) == Len(p) <= Len(s) /\ SubSeq(s, 1, Len(p)) = p

\* sub in s
StrIn(sub, s) ==
    \E i \in 1..(Len(s) + 1) :
        i + Len(sub) - 1 <= Len(s) /\ SubSeq(s, i, i + Len(sub) - 1) = sub

\* s.replace(old, new), old not empty: every non-overlapping occurrence,
\* from the left.
RECURSIVE StrReplace(_, _, _)
StrReplace(s, old, new) ==
    IF s = <<>> THEN <<>>
    ELSE IF StartsWith(s, old)
         THEN new \o StrReplace(SubSeq(s, Len(old) + 1, Len(s)), old, new)
    ELSE <<Head(s)>> \o StrReplace(Tail(s), old, new)

\* s.strip(): leading and trailing whitespace removed.
RECURSIVE StrStrip(_)
StrStrip(s) ==
    IF s = <<>> THEN s
    ELSE IF Head(s) = " " THEN StrStrip(Tail(s))
    ELSE IF s[Len(s)] = " " THEN StrStrip(SubSeq(s, 1, Len(s) - 1))
    ELSE s

(***************************************************************************)
(* clean_age_group                                                         *)
(***************************************************************************)
\* BucketOf with a last branch that tests for the oldest labels and leaves
\* any other text unbucketed.
BucketOfUnknown(age_group) ==
    IF age_group = <<"<", " ", "1">> THEN "0-19"
    ELSE IF \/ /\ StrLe(<<"1", "-", "4">>, age_group)
               /\ StrLe(age_group, <<"1", "9">>)
            \/ StrIn(<<"1", "5", "-", "1", "9">>, age_group)
         THEN "0-19"
    ELSE IF /\ StrLe(<<"2", "0", "-", "2", "4">>, age_group)
            /\ StrLe(age_group, <<"3", "9">>)
         THEN "20-39"
    ELSE IF /\ StrLe(<<"4", "0", "-", "4", "4">>, age_group)
            /\ StrLe(age_group, <<"5", "9">>)
         THEN "40-59"
    ELSE IF /\ StrLe(<<"6", "0", "-", "6", "4">>, age_group)
            /\ StrLe(age_group, <<"7", "9">>)
         THEN "60-79"
    ELSE IF /\ StrLe(<<"8", "0", "-", "8", "4">>, age_group)
            /\ StrLe(age_group, <<"8", "9">>)
         THEN "80+"
    ELSE "Unknown"

\* The comparisons of lines 25-36 on the stripped label.
BucketOf(age_group) ==
    IF age_group = <<"<", " ", "1">> THEN "0-19"
    ELSE IF \/ /\ StrLe(<<"1", "-", "4">>, age_group)
               /\ StrLe(age_group, <<"1", "9">>)
            \/ StrIn(<<"1", "5", "-", "1", "9">>, age_group)
         THEN "0-19"
    ELSE IF /\ StrLe(<<"2", "0", "-", "2", "4">>, age_group)
            /\ StrLe(age_group, <<"3", "9">>)
         THEN "20-39"
    ELSE IF /\ StrLe(<<"4", "0", "-", "4", "4">>, age_group)
            /\ StrLe(age_group, <<"5", "9">>)
         THEN "40-59"
    ELSE IF /\ StrLe(<<"6", "0", "-", "6", "4">>, age_group)
            /\ StrLe(age_group, <<"7", "9">>)
         THEN "60-79"
    ELSE "80+"

clean_age_group(age_group) ==
    IF StrIn(<<"y", "e", "a", "r", "s">>, age_group)
    THEN BucketOf(StrStrip(StrReplace(age_group,
                                      <<" ", "y", "e", "a", "r", "s">>, <<>>)))
    ELSE BucketOf(age_group)

(***************************************************************************)
(* Loading and cleaning (module level, lines 12-45).                       *)
(***************************************************************************)
\* pd.to_numeric(cell, errors="coerce") on a cell holding decimal digits
\* or other text: the number, or NaN.
RECURSIVE DecimalValue(_)
DecimalValue(s) ==
    IF s = <<>> THEN 0
    ELSE 10 * DecimalValue(SubSeq(s, 1, Len(s) - 1)) + (CodePoint[s[Len(s)]] - 48)

to_numeric(cell) ==
    IF cell # <<>> /\ \A i \in 1..Len(cell) : cell[i] \in Digits
    THEN DecimalValue(cell)
    ELSE NaN

\* Lines 13, 17, 40: Mortality.csv with "Deaths" coerced and "Age Range" added.
LoadMortality(csv) ==
    [i \in 1..Len(csv) |->
        [State |-> csv[i].State, Year |-> csv[i].Year,
         AgeGroup |-> csv[i].AgeGroup,
         Deaths |-> to_numeric(csv[i].Deaths),
         AgeRange |-> clean_age_group(csv[i].AgeGroup)]]

\* Lines 14, 18, 41: Incidence.csv with "Count" coerced and "Age Range" added.
LoadIncidence(csv) ==
    [i \in 1..Len(csv) |->
        [State |-> csv[i].State, Year |-> csv[i].Year,
         AgeGroups |-> csv[i].AgeGroups,
         Count |-> to_numeric(csv[i].Count),
         AgeRange |-> clean_age_group(csv[i].AgeGroups)]]

\* Series.sum(skipna=False): NaN as soon as one value is NaN.
RECURSIVE ColumnSumNoSkip(_, _)
ColumnSumNoSkip(data, column) ==
    IF data = <<>> THEN 0
    ELSE IF Head(data)[column] = NaN \/ ColumnSumNoSkip(Tail(data), column) = NaN
         THEN NaN
    ELSE Head(data)[column] + ColumnSumNoSkip(Tail(data), column)

\* Series.sum(): the sum of a column over the rows of a frame, NaN skipped
\* (0 for no numeric value).
RECURSIVE ColumnSum(_, _)
ColumnSum(data, column) ==
    IF data = <<>> THEN 0
    ELSE (IF Head(data)[column] = NaN THEN 0 ELSE Head(data)[column])
         + ColumnSum(Tail(data), column)

\* data[data[column] == value]
RECURSIVE FilterEq(_, _, _)
FilterEq(data, column, value) ==
    IF data = <<>> THEN <<>>
    ELSE (IF Head(data)[column] = value THEN <<Head(data)>> ELSE <<>>)
         \o FilterEq(Tail(data), column, value)

\* The values of a column.
ColumnValues(data, column) == {data[i][column] : i \in 1..Len(data)}

SetMin(S) == CHOOSE x \in S : \A y \in S : x <= y
SetMax(S) == CHOOSE x \in S : \A y \in S : y <= x

\* The smallest year of the mortality frame alone.
MinYearOfMortality(mortality, incidence) ==
    SetMin(ColumnValues(mortality, "Year"))

\* Lines 44-45.
MinYearOf(mortality, incidence) ==
    LET a == SetMin(ColumnValues(mortality, "Year"))
        b == SetMin(ColumnValues(incidence, "Year"))
    IN  IF a <= b THEN a ELSE b

MaxYearOf(mortality, incidence) ==
    LET a == SetMax(ColumnValues(mortality, "Year"))
        b == SetMax(ColumnValues(incidence, "Year"))
    IN  IF a >= b THEN a ELSE b

(***************************************************************************)
(* The shapefile (lines 47-57).                                            *)
(***************************************************************************)
min_long == -125
max_long == -66
min_lat == 24
max_lat == 49

\* Three of the shapes of ne_110m_admin_1_states_provinces with the bounds
\* of each in whole degrees.
Shapefile ==
    << [name |-> "Texas",  minx |-> -107, maxx |-> -93,  miny |-> 25, maxy |-> 37],
       [name |-> "Alaska", minx |-> -179, maxx |-> -130, miny |-> 51, maxy |-> 72],
       [name |-> "Ohio",   minx |-> -85,  maxx |-> -80,  miny |-> 38, maxy |-> 42] >>

\* gdf.cx[min_long:max_long, min_lat:max_lat]: the shapes that intersect
\* the bounding box, in the order of the file.
RECURSIVE ClipToBox(_)
ClipToBox(shapes) ==
    IF shapes = <<>> THEN <<>>
    ELSE (IF /\ Head(shapes).minx <= max_long /\ Head(shapes).maxx >= min_long
             /\ Head(shapes).miny <= max_lat  /\ Head(shapes).maxy >= min_lat
          THEN <<Head(shapes)>> ELSE <<>>)
         \o ClipToBox(Tail(shapes))

(***************************************************************************)
(* The map (lines 79-159).                                                 *)
(***************************************************************************)
\* data.groupby("State")[value_column].sum() joined back to the years: the
\* total of a state over all its years in every (State, Year) row.
aggregate_data_by_state(data, value_column) ==
    { [State |-> k[1], Year |-> k[2],
       Value |-> ColumnSum(FilterEq(data, "State", k[1]), value_column)]
      : k \in {<<data[i].State, data[i].Year>> : i \in 1..Len(data)} }

\* data.groupby(["State", "Year"])[value_column].sum().reset_index(): one
\* row per (State, Year) of the frame.  The order of its rows is never
\* observed (the merge follows the shapefile), so it is kept as a set.
aggregate_data(data, value_column) ==
    { [State |-> k[1], Year |-> k[2],
       Value |-> ColumnSum(FilterEq(FilterEq(data, "State", k[1]), "Year", k[2]),
                           value_column)]
      : k \in {<<data[i].State, data[i].Year>> : i \in 1..Len(data)} }

\* gdf.merge(aggregated_data, left_on="name", right_on="State", how="left"):
\* for every shape, in order, one row per row of aggregated_data of that
\* state, or one row with NaN when there is none.
RECURSIVE LeftMerge(_, _)
LeftMerge(shapes, aggregated_data) ==
    IF shapes = <<>> THEN <<>>
    ELSE LET matches == {a \in aggregated_data : a.State = Head(shapes).name}
             RECURSIVE RowsOf(_)
             RowsOf(M) ==
                 IF M = {} THEN <<>>
                 ELSE LET a == CHOOSE x \in M : TRUE
                      IN  <<[name |-> Head(shapes).name, value |-> a.Value]>>
                          \o RowsOf(M \ {a})
         IN  (IF matches = {}
              THEN <<[name |-> Head(shapes).name, value |-> NaN]>>
              ELSE RowsOf(matches))
             \o LeftMerge(Tail(shapes), aggregated_data)

\* merged_data.fillna(0) in place of the dropna.
FillnaZero(merged_data) ==
    [i \in 1..Len(merged_data) |->
        IF merged_data[i].value = NaN
        THEN [merged_data[i] EXCEPT !.value = 0]
        ELSE merged_data[i]]

\* merged_data.dropna(subset=[value_column])
RECURSIVE Dropna(_)
Dropna(merged_data) ==
    IF merged_data = <<>> THEN <<>>
    ELSE (IF Head(merged_data).value = NaN THEN <<>> ELSE <<Head(merged_data)>>)
         \o Dropna(Tail(merged_data))

merge_data_with_shapefile(aggregated_data, data_type) ==
    Dropna(LeftMerge(gdf, aggregated_data))

\* create_us_map_with_aggregated_data with the two aggregated frames taken
\* for each other.
create_us_map_frames_swapped(selected_year, data_type) ==
    LET filtered_data ==
            IF data_type = "incidence"
            THEN {a \in mortality_data_aggregated : a.Year = selected_year}
            ELSE {a \in incidence_data_aggregated : a.Year = selected_year}
        merged_data == merge_data_with_shapefile(filtered_data, data_type)
    IN  [selected_year |-> selected_year,
         data_type |-> data_type,
         value_column |-> IF data_type = "incidence" THEN "Count" ELSE "Deaths",
         color_scale |-> IF data_type = "incidence" THEN "Oranges" ELSE "Greys",
         merged_data |-> merged_data]

create_us_map_with_aggregated_data(selected_year, data_type) ==
    LET filtered_data ==
            IF data_type = "incidence"
            THEN {a \in incidence_data_aggregated : a.Year = selected_year}
            ELSE {a \in mortality_data_aggregated : a.Year = selected_year}
        merged_data == merge_data_with_shapefile(filtered_data, data_type)
    IN  [selected_year |-> selected_year,
         data_type |-> data_type,
         value_column |-> IF data_type = "incidence" THEN "Count" ELSE "Deaths",
         color_scale |-> IF data_type = "incidence" THEN "Oranges" ELSE "Greys",
         merged_data |-> merged_data]

(***************************************************************************)
(* The bar chart (lines 239-297).                                          *)
(***************************************************************************)
\* The order in which pandas sorts the keys of the outer merge.
AgeRangeOrder == <<"0-19", "20-39", "40-59", "60-79", "80+">>

categoryarray == <<"0-19", "20-39", "40-59", "60-79", "80+">>

\* filtered.groupby("Age Range").agg({column: "sum"}): a function from the
\* age ranges of the frame to the sums.
GroupByAgeRange(data, column) ==
    [r \in ColumnValues(data, "AgeRange") |->
        ColumnSum(FilterEq(data, "AgeRange", r), column)]

\* The merge with how="inner": only the age ranges of both sides.
RECURSIVE InnerMerge(_, _, _)
InnerMerge(order, mortality_by_age, incidence_by_age) ==
    IF order = <<>> THEN <<>>
    ELSE LET r == Head(order)
         IN  (IF r \in DOMAIN mortality_by_age /\ r \in DOMAIN incidence_by_age
              THEN << [AgeRange |-> r, Deaths |-> mortality_by_age[r],
                       Count |-> incidence_by_age[r]] >>
              ELSE <<>>)
             \o InnerMerge(Tail(order), mortality_by_age, incidence_by_age)

\* pd.merge(mortality_by_age, incidence_by_age, on="Age Range",
\* how="outer").fillna(0): one row per age range of either side, sorted by
\* age range, a side without the age range filled with 0.
RECURSIVE OuterMergeFillna(_, _, _)
OuterMergeFillna(order, mortality_by_age, incidence_by_age) ==
    IF order = <<>> THEN <<>>
    ELSE LET r == Head(order)
         IN  (IF r \in DOMAIN mortality_by_age \/ r \in DOMAIN incidence_by_age
              THEN << [AgeRange |-> r,
                       Deaths |-> IF r \in DOMAIN mortality_by_age
                                  THEN mortality_by_age[r] ELSE 0,
                       Count |-> IF r \in DOMAIN incidence_by_age
                                 THEN incidence_by_age[r] ELSE 0] >>
              ELSE <<>>)
             \o OuterMergeFillna(Tail(order), mortality_by_age, incidence_by_age)

update_chart(selected_year) ==
    LET filtered_mortality_data == FilterEq(mortality_data, "Year", selected_year)
        filtered_incidence_data == FilterEq(incidence_data, "Year", selected_year)
        mortality_by_age == GroupByAgeRange(filtered_mortality_data, "Deaths")
        incidence_by_age == GroupByAgeRange(filtered_incidence_data, "Count")
        combined_data == OuterMergeFillna(AgeRangeOrder, mortality_by_age,
                                          incidence_by_age)
    IN  [selected_year |-> selected_year,
         x |-> [i \in 1..Len(combined_data) |-> combined_data[i].AgeRange],
         Incidence |-> [i \in 1..Len(combined_data) |-> combined_data[i].Count],
         Deaths |-> [i \in 1..Len(combined_data) |-> combined_data[i].Deaths],
         categoryarray |-> categoryarray]

update_map(selected_year, data_type) ==
    create_us_map_with_aggregated_data(selected_year, data_type)

(***************************************************************************)
(* The layout and the callback registrations (lines 166-238).              *)
(***************************************************************************)
\* range(start, stop, step) as a set.
PyRange(start, stop, step) ==
    {y \in start..(stop - 1) : (y - start) % step = 0}

\* dcc.Slider(min=min_year, max=max_year, step=1, value=min_year, marks=...)
SliderLayout(lo, hi) ==
    [min |-> lo, max |-> hi, step |-> 1, value |-> lo,
     marks |-> PyRange(lo, hi + 1, 2)]

\* dcc.RadioItems(options=[incidence, mortality], value="incidence")
RadioItemsLayout ==
    [options |-> {"incidence", "mortality"}, value |-> "incidence"]

\* The values a user can set the slider to.
SliderValues ==
    {y \in year_slider.min..year_slider.max :
        (y - year_slider.min) % year_slider.step = 0}

\* update_chart registered on the data selector instead of the slider.
UpdateChartInputsSelector == {"data-selector"}

\* The Input lists of the two @app.callback decorators.
UpdateMapInputs == {"year-slider", "data-selector"}
UpdateChartInputs == {"year-slider"}

callback_inputs ==
    [update_map |-> UpdateMapInputs, update_chart |-> UpdateChartInputs]

\* The callbacks Dash triggers when a prop of the component changes.
Triggered(component) ==
    {cb \in DOMAIN callback_inputs : component \in callback_inputs[cb]}

(***************************************************************************)
(* The files the model is run on.                                          *)
(***************************************************************************)
Years(text) == text \o <<" ", "y", "e", "a", "r", "s">>

\* The age-group labels of the two files.
DatasetAgeGroups ==
    { <<"<", " ", "1", " ", "y", "e", "a", "r">>,
      Years(<<"1", "-", "4">>), Years(<<"5", "-", "9">>),
      Years(<<"1", "0", "-", "1", "4">>), Years(<<"1", "5", "-", "1", "9">>),
      Years(<<"2", "0", "-", "2", "4">>), Years(<<"2", "5", "-", "2", "9">>),
      Years(<<"3", "0", "-", "3", "4">>), Years(<<"3", "5", "-", "3", "9">>),
      Years(<<"4", "0", "-", "4", "4">>), Years(<<"4", "5", "-", "4", "9">>),
      Years(<<"5", "0", "-", "5", "4">>), Years(<<"5", "5", "-", "5", "9">>),
      Years(<<"6", "0", "-", "6", "4">>), Years(<<"6", "5", "-", "6", "9">>),
      Years(<<"7", "0", "-", "7", "4">>), Years(<<"7", "5", "-", "7", "9">>),
      Years(<<"8", "0", "-", "8", "4">>), Years(<<"8", "5", "+">>) }

\* Other text a file may hold in the age-group column.
OtherAgeGroups ==
    { <<"N", "o", "t", " ", "S", "t", "a", "t", "e", "d">>,
      <<"<", " ", "1", " ", "y", "e", "a", "r", "s">>,
      <<" ", "1", "-", "4", " ", "y", "e", "a", "r", "s", " ">>,
      <<"y", "e", "a", "r", "s">> }

TextAlphabet == {" ", "+", "-", "<", "1", "2", "4", "6", "8", "9"}

\* Every text over TextAlphabet of at most n characters.
RECURSIVE TextsUpTo(_)
TextsUpTo(n) ==
    IF n = 0 THEN {<<>>}
    ELSE LET shorter == TextsUpTo(n - 1)
         IN  shorter \cup {Append(t, c) : t \in shorter, c \in TextAlphabet}

AgeGroupTexts == DatasetAgeGroups \cup OtherAgeGroups \cup TextsUpTo(MaxLen)

Suppressed == <<"S", "u", "p", "p", "r", "e", "s", "s", "e", "d">>

\* A set as a sequence, in a fixed order.
RECURSIVE SetToSeq(_)
SetToSeq(S) ==
    IF S = {} THEN <<>>
    ELSE LET x == CHOOSE y \in S : TRUE
         IN  <<x>> \o SetToSeq(S \ {x})

\* The files of n rows over the rows of a universe.  Every operation of the
\* program on a frame (filter, group-by and sum, min, max, merge on a key) is
\* independent of the order of its rows, so one order of each multiset of
\* rows is taken.
FilesOf(universe, n) ==
    LET u == SetToSeq(universe)
    IN  { [i \in 1..n |-> u[s[i]]] :
            s \in {t \in [1..n -> 1..Len(u)] :
                      \A i \in 1..n, j \in 1..n : i < j => t[i] <= t[j]} }

MortalityRows(states, years, ages, cells) ==
    { [State |-> st, Year |-> y, AgeGroup |-> a, Deaths |-> c] :
        st \in states, y \in years, a \in ages, c \in cells }

IncidenceRows(states, years, ages, cells) ==
    { [State |-> st, Year |-> y, AgeGroups |-> a, Count |-> c] :
        st \in states, y \in years, a \in ages, c \in cells }

\* Pairs of non-empty files of at most n rows together.
FilePairs(mortality_rows, incidence_rows, n) ==
    UNION { FilesOf(mortality_rows, kl[1]) \X FilesOf(incidence_rows, kl[2]) :
              kl \in {p \in (1..n) \X (1..n) : p[1] + p[2] <= n} }

\* Files of the specifications of the views: a state inside and a state
\* outside the clipped shapefile, two years, two age groups, and cells that
\* are suppressed, zero or positive.
ViewStates == {"Texas", "Alaska"}
ViewYears == {FirstYear, FirstYear + 1}
ViewAgeGroups == {Years(<<"1", "-", "4">>), Years(<<"2", "0", "-", "2", "4">>)}
ViewCells == {Suppressed, <<"0">>, <<"1">>}

ViewFiles(states, years, ages) ==
    FilePairs(MortalityRows(states, years, ages, ViewCells),
              IncidenceRows(states, years, ages, ViewCells),
              MaxRows)

\* For the map: both states, both years, one age group.
MapFiles == ViewFiles(ViewStates, ViewYears, {Years(<<"1", "-", "4">>)})
\* For the bar chart: one state, both years, both age groups.
ChartFiles == ViewFiles({"Texas"}, ViewYears, ViewAgeGroups)
\* For the totals of the two views: both states, one year, both age groups.
TotalsFiles == ViewFiles(ViewStates, {FirstYear}, ViewAgeGroups)

\* Files of the specification of the controls.
UiYears == FirstYear..(FirstYear + NumYears - 1)
UiCells == {Suppressed, <<"1">>}

UiFiles ==
    FilePairs(MortalityRows({"Texas"}, UiYears, {Years(<<"1", "-", "4">>)}, UiCells),
              IncidenceRows({"Texas"}, UiYears, {Years(<<"1", "-", "4">>)}, UiCells),
              UiRows)

\* Files of the specification of clean_age_group: one mortality row whose
\* age group is any text, one incidence row.
CleanFiles ==
    { << <<[State |-> "Texas", Year |-> FirstYear, AgeGroup |-> a,
            Deaths |-> <<"1">>]>>,
         <<[State |-> "Texas", Year |-> FirstYear,
            AgeGroups |-> Years(<<"8", "5", "+">>), Count |-> <<"2">>]>> >> :
        a \in AgeGroupTexts }

(***************************************************************************)
(* The state after import of the module on a pair of files.                *)
(***************************************************************************)
\* Lines 12-45, 57, 84-85 and the layout of lines 166-225; Dash calls every
\* callback once when the page loads.
Imported(files) ==
    LET mortality == LoadMortality(files[1])
        incidence == LoadIncidence(files[2])
    IN  /\ mortality_csv = files[1]
        /\ incidence_csv = files[2]
        /\ mortality_data = mortality
        /\ incidence_data = incidence
        /\ incidence_data_aggregated = aggregate_data(incidence, "Count")
        /\ mortality_data_aggregated = aggregate_data(mortality, "Deaths")
        /\ gdf = ClipToBox(Shapefile)
        /\ year_slider = SliderLayout(MinYearOf(mortality, incidence),
                                      MaxYearOf(mortality, incidence))
        /\ data_selector = RadioItemsLayout
        /\ pending = DOMAIN callback_inputs
        /\ us_map = None
        /\ bar_chart = None

Init == \E files \in UiFiles : Imported(files)

InitClean == \E files \in CleanFiles : Imported(files)

\* The state after import with the controls moved to any selection and both
\* callbacks triggered and not yet run.
Selected(files) ==
    LET mortality == LoadMortality(files[1])
        incidence == LoadIncidence(files[2])
        layout == SliderLayout(MinYearOf(mortality, incidence),
                               MaxYearOf(mortality, incidence))
    IN  /\ mortality_csv = files[1]
        /\ incidence_csv = files[2]
        /\ mortality_data = mortality
        /\ incidence_data = incidence
        /\ incidence_data_aggregated = aggregate_data(incidence, "Count")
        /\ mortality_data_aggregated = aggregate_data(mortality, "Deaths")
        /\ gdf = ClipToBox(Shapefile)
        /\ \E y \in PyRange(layout.min, layout.max + 1, layout.step) :
               year_slider = [layout EXCEPT !.value = y]
        /\ \E t \in RadioItemsLayout.options :
               data_selector = [RadioItemsLayout EXCEPT !.value = t]
        /\ pending = DOMAIN callback_inputs
        /\ us_map = None
        /\ bar_chart = None

InitMap == \E files \in MapFiles : Selected(files)

InitChart == \E files \in ChartFiles : Selected(files)

InitTotals == \E files \in TotalsFiles : Selected(files)

(***************************************************************************)
(* Actions.                                                                *)
(***************************************************************************)
\* The user moves the year slider.
YearSliderChange ==
    \E y \in SliderValues :
        /\ y # year_slider.value
        /\ year_slider' = [year_slider EXCEPT !.value = y]
        /\ pending' = pending \cup Triggered("year-slider")
        /\ UNCHANGED <<data_vars, data_selector, us_map, bar_chart>>

\* The user picks the other data type.
DataSelectorChange ==
    \E t \in data_selector.options :
        /\ t # data_selector.value
        /\ data_selector' = [data_selector EXCEPT !.value = t]
        /\ pending' = pending \cup Triggered("data-selector")
        /\ UNCHANGED <<data_vars, year_slider, us_map, bar_chart>>

\* Dash runs update_map on the current values of its inputs.
UpdateMapCallback ==
    /\ "update_map" \in pending
    /\ us_map' = update_map(year_slider.value, data_selector.value)
    /\ pending' = pending \ {"update_map"}
    /\ UNCHANGED <<data_vars, year_slider, data_selector, bar_chart>>

\* update_chart with the filtered frames assigned to the module's frames.
UpdateChartInPlace ==
    /\ "update_chart" \in pending
    /\ bar_chart' = update_chart(year_slider.value)
    /\ mortality_data' = FilterEq(mortality_data, "Year", year_slider.value)
    /\ incidence_data' = FilterEq(incidence_data, "Year", year_slider.value)
    /\ pending' = pending \ {"update_chart"}
    /\ UNCHANGED <<mortality_csv, incidence_csv, incidence_data_aggregated,
                   mortality_data_aggregated, gdf, year_slider, data_selector,
                   us_map>>

\* Dash runs update_chart on the current value of its input.
UpdateChartCallback ==
    /\ "update_chart" \in pending
    /\ bar_chart' = update_chart(year_slider.value)
    /\ pending' = pending \ {"update_chart"}
    /\ UNCHANGED <<data_vars, year_slider, data_selector, us_map>>

Next ==
    \/ YearSliderChange
    \/ DataSelectorChange
    \/ UpdateMapCallback
    \/ UpdateChartCallback

NextCallbacks ==
    \/ UpdateMapCallback
    \/ UpdateChartCallback

\* The dashboard with its controls, on small files.
Spec == Init /\ [][Next]_vars

\* The views for every selection, on larger files.
SpecMap == InitMap /\ [][NextCallbacks]_vars

SpecChart == InitChart /\ [][NextCallbacks]_vars

SpecTotals == InitTotals /\ [][NextCallbacks]_vars

\* clean_age_group on every text, and the chart drawn from it.
SpecClean == InitClean /\ [][NextCallbacks]_vars

(***************************************************************************)
(* What the figures are expected to show, stated on the records.           *)
(***************************************************************************)
\* The sum of f over a finite set of rows (row numbers of a frame).
RECURSIVE TotalOver(_, _, _)
TotalOver(I, data, column) ==
    IF I = {} THEN 0
    ELSE LET i == CHOOSE j \in I : TRUE
         IN  data[i][column] + TotalOver(I \ {i}, data, column)

\* The rows of a frame with a numeric value in the column.
NumericRows(data, column) == {i \in 1..Len(data) : data[i][column] # NaN}

\* The frame and the value column of a data type.
DataOf(data_type) ==
    IF data_type = "incidence" THEN incidence_data ELSE mortality_data

ColumnOf(data_type) == IF data_type = "incidence" THEN "Count" ELSE "Deaths"

CsvOf(data_type) ==
    IF data_type = "incidence" THEN incidence_csv ELSE mortality_csv

\* The sum of the numeric values of the records of a data type with the
\* given state and year.
StateTotal(data_type, state, year) ==
    LET data == DataOf(data_type)
    IN  TotalOver({i \in NumericRows(data, ColumnOf(data_type)) :
                      data[i].State = state /\ data[i].Year = year},
                  data, ColumnOf(data_type))

\* The sum of the numeric values of the records of a data type with the
\* given age range and year.
AgeRangeTotal(data_type, age_range, year) ==
    LET data == DataOf(data_type)
    IN  TotalOver({i \in NumericRows(data, ColumnOf(data_type)) :
                      data[i].AgeRange = age_range /\ data[i].Year = year},
                  data, ColumnOf(data_type))

\* The names of the clipped shapefile.
ShapeNames == {gdf[i].name : i \in 1..Len(gdf)}

\* The states drawn on the map.
DrawnStates == {us_map.merged_data[i].name : i \in 1..Len(us_map.merged_data)}

\* The sum of the elements of a sequence of numbers.
RECURSIVE SeqTotal(_)
SeqTotal(q) == IF q = <<>> THEN 0 ELSE Head(q) + SeqTotal(Tail(q))

CanonicalAgeRanges == {"0-19", "20-39", "40-59", "60-79", "80+"}

\* The canonical range that contains the ages of each label of the files.
CanonicalRangeOf ==
    (<<"<", " ", "1", " ", "y", "e", "a", "r">> :> "0-19") @@
    (Years(<<"1", "-", "4">>) :> "0-19") @@
    (Years(<<"5", "-", "9">>) :> "0-19") @@
    (Years(<<"1", "0", "-", "1", "4">>) :> "0-19") @@
    (Years(<<"1", "5", "-", "1", "9">>) :> "0-19") @@
    (Years(<<"2", "0", "-", "2", "4">>) :> "20-39") @@
    (Years(<<"2", "5", "-", "2", "9">>) :> "20-39") @@
    (Years(<<"3", "0", "-", "3", "4">>) :> "20-39") @@
    (Years(<<"3", "5", "-", "3", "9">>) :> "20-39") @@
    (Years(<<"4", "0", "-", "4", "4">>) :> "40-59") @@
    (Years(<<"4", "5", "-", "4", "9">>) :> "40-59") @@
    (Years(<<"5", "0", "-", "5", "4">>) :> "40-59") @@
    (Years(<<"5", "5", "-", "5", "9">>) :> "40-59") @@
    (Years(<<"6", "0", "-", "6", "4">>) :> "60-79") @@
    (Years(<<"6", "5", "-", "6", "9">>) :> "60-79") @@
    (Years(<<"7", "0", "-", "7", "4">>) :> "60-79") @@
    (Years(<<"7", "5", "-", "7", "9">>) :> "60-79") @@
    (Years(<<"8", "0", "-", "8", "4">>) :> "80+") @@
    (Years(<<"8", "5", "+">>) :> "80+")

(***************************************************************************)
(* C1 (SpecClean).                                                         *)
(***************************************************************************)
\* C1: every age-group label of the files is re-bucketed into the canonical
\* range that contains its ages ("< 1 year" to "15-19 years" into 0-19,
\* "20-24 years" to "35-39 years" into 20-39, and so on up to 80+).
C1_LabelsInCanonicalRange ==
    \A i \in 1..Len(mortality_data) :
        mortality_data[i].AgeGroup \in DOMAIN CanonicalRangeOf
            => mortality_data[i].AgeRange
                   = CanonicalRangeOf[mortality_data[i].AgeGroup]

(***************************************************************************)
(* C5 (SpecClean).                                                         *)
(***************************************************************************)
\* The place of an age range in the declared category order (0 when it is
\* not a declared category).
PlaceIn(order, r) ==
    IF \E i \in 1..Len(order) : order[i] = r
    THEN CHOOSE i \in 1..Len(order) : order[i] = r
    ELSE 0

\* C5: the age range of every record, whatever text its age group holds, is
\* one of the five canonical labels, and a drawn bar chart has at most five
\* categories, each a declared category, in the declared order.
C5_FiveCanonicalRanges ==
    /\ \A i \in 1..Len(mortality_data) :
           mortality_data[i].AgeRange \in CanonicalAgeRanges
    /\ \A i \in 1..Len(incidence_data) :
           incidence_data[i].AgeRange \in CanonicalAgeRanges
    /\ bar_chart # None =>
           /\ Len(bar_chart.x) <= 5
           /\ \A i \in 1..Len(bar_chart.x) :
                  PlaceIn(bar_chart.categoryarray, bar_chart.x[i]) > 0
           /\ \A i \in 1..Len(bar_chart.x), j \in 1..Len(bar_chart.x) :
                  i < j => PlaceIn(bar_chart.categoryarray, bar_chart.x[i])
                               < PlaceIn(bar_chart.categoryarray, bar_chart.x[j])

\* A chart of two categories drawn from a record whose age group is not a
\* label of the files.
C5_Witness ==
    /\ bar_chart # None
    /\ Len(bar_chart.x) = 2
    /\ mortality_data[1].AgeGroup \notin DatasetAgeGroups
    /\ mortality_data[1].AgeGroup # <<>>

(***************************************************************************)
(* C2, C7 (SpecMap).                                                       *)
(***************************************************************************)
\* C2: the value the map shows for a state is the sum of the numeric values
\* (Count for incidence, Deaths for mortality) of the records of the map's
\* data type whose State is the state's shapefile name and whose Year is the
\* selected year; no other record contributes.
C2_MapShowsStateTotals ==
    us_map # None =>
        /\ us_map.selected_year = year_slider.value
        /\ us_map.data_type = data_selector.value
        /\ \A i \in 1..Len(us_map.merged_data) :
               us_map.merged_data[i].value
                   = StateTotal(us_map.data_type, us_map.merged_data[i].name,
                                us_map.selected_year)

\* A mortality map that shows 2 for a state with two mortality records of 1
\* in the selected year, from files with an incidence record of 1 of the
\* same state and year.
C2_Witness ==
    /\ us_map # None
    /\ us_map.data_type = "mortality"
    /\ us_map.merged_data = <<[name |-> "Texas", value |-> 2]>>
    /\ \E i \in 1..Len(incidence_data) :
           /\ incidence_data[i].State = "Texas"
           /\ incidence_data[i].Year = us_map.selected_year
           /\ incidence_data[i].Count = 1

\* C7: the states drawn on the map are exactly the states of the clipped
\* shapefile with at least one record of the map's data type in the selected
\* year under the same name, each drawn once; a shapefile state without such
\* a record is omitted, and a state outside the clipped shapefile is never
\* drawn.
C7_StatesWithoutDataDropped ==
    us_map # None =>
        /\ DrawnStates =
               {n \in ShapeNames :
                   \E i \in 1..Len(DataOf(us_map.data_type)) :
                       /\ DataOf(us_map.data_type)[i].State = n
                       /\ DataOf(us_map.data_type)[i].Year = us_map.selected_year}
        /\ Len(us_map.merged_data) = Cardinality(DrawnStates)
        /\ "Alaska" \notin DrawnStates

\* A map that draws Texas and omits Ohio, from files with a record of Alaska
\* in the selected year.
C7_Witness ==
    /\ us_map # None
    /\ DrawnStates = {"Texas"}
    /\ "Ohio" \in ShapeNames
    /\ \E i \in 1..Len(DataOf(us_map.data_type)) :
           /\ DataOf(us_map.data_type)[i].State = "Alaska"
           /\ DataOf(us_map.data_type)[i].Year = us_map.selected_year
           /\ DataOf(us_map.data_type)[i][ColumnOf(us_map.data_type)] = 1

(***************************************************************************)
(* C3 (SpecChart).                                                         *)
(***************************************************************************)
\* The age ranges with a record of the year in either frame.
AgeRangesOfYear(year) ==
    {mortality_data[i].AgeRange :
        i \in {j \in 1..Len(mortality_data) : mortality_data[j].Year = year}}
    \cup
    {incidence_data[i].AgeRange :
        i \in {j \in 1..Len(incidence_data) : incidence_data[j].Year = year}}

\* C3: the bar chart has one category per age range with a record of the
\* selected year in either file; its Incidence bar is the sum of Count over
\* the incidence records of that year and age range and its Deaths bar the
\* sum of Deaths over the mortality records of that year and age range, which
\* is 0 for a file with no record of that year and age range.
C3_BarsShowAgeRangeTotals ==
    bar_chart # None =>
        /\ bar_chart.selected_year = year_slider.value
        /\ {bar_chart.x[i] : i \in 1..Len(bar_chart.x)}
               = AgeRangesOfYear(bar_chart.selected_year)
        /\ Len(bar_chart.x) = Cardinality(AgeRangesOfYear(bar_chart.selected_year))
        /\ Len(bar_chart.Incidence) = Len(bar_chart.x)
        /\ Len(bar_chart.Deaths) = Len(bar_chart.x)
        /\ \A i \in 1..Len(bar_chart.x) :
               /\ bar_chart.Incidence[i]
                      = AgeRangeTotal("incidence", bar_chart.x[i],
                                      bar_chart.selected_year)
               /\ bar_chart.Deaths[i]
                      = AgeRangeTotal("mortality", bar_chart.x[i],
                                      bar_chart.selected_year)

\* A chart of two age ranges, the first with two mortality records and no
\* incidence record of the year, the second with an incidence record only.
C3_Witness ==
    /\ bar_chart # None
    /\ bar_chart.x = <<"0-19", "20-39">>
    /\ bar_chart.Deaths = <<2, 0>>
    /\ bar_chart.Incidence = <<0, 1>>

(***************************************************************************)
(* C6, C10 (SpecTotals).                                                   *)
(***************************************************************************)
\* The cells of a file that hold a number.
NumericCells(csv, column) ==
    {i \in 1..Len(csv) :
        csv[i][column] # <<>> /\ \A k \in 1..Len(csv[i][column]) :
                                    csv[i][column][k] \in Digits}

\* The sum of the numbers of the given rows of a file.
RECURSIVE CellTotal(_, _, _)
CellTotal(I, csv, column) ==
    IF I = {} THEN 0
    ELSE LET i == CHOOSE j \in I : TRUE
         IN  DecimalValue(csv[i][column]) + CellTotal(I \ {i}, csv, column)

\* C6: a record whose Deaths or Count cell is not a number is kept, with a
\* missing value; every total of the map and of the bar chart is the sum of
\* the cells of its group that are numbers, so that such a record adds
\* nothing to it.
C6_MissingValuesAddNothing ==
    /\ Len(mortality_data) = Len(mortality_csv)
    /\ Len(incidence_data) = Len(incidence_csv)
    /\ \A i \in 1..Len(mortality_csv) :
           i \notin NumericCells(mortality_csv, "Deaths")
               => mortality_data[i].Deaths = NaN
    /\ \A i \in 1..Len(incidence_csv) :
           i \notin NumericCells(incidence_csv, "Count")
               => incidence_data[i].Count = NaN
    /\ us_map # None =>
           \A i \in 1..Len(us_map.merged_data) :
               LET csv == CsvOf(us_map.data_type)
                   column == ColumnOf(us_map.data_type)
               IN  us_map.merged_data[i].value
                       = CellTotal({j \in NumericCells(csv, column) :
                                       /\ csv[j].State = us_map.merged_data[i].name
                                       /\ csv[j].Year = us_map.selected_year},
                                   csv, column)
    /\ bar_chart # None =>
           \A i \in 1..Len(bar_chart.x) :
               /\ bar_chart.Deaths[i]
                    = CellTotal({j \in NumericCells(mortality_csv, "Deaths") :
                                    /\ mortality_data[j].AgeRange = bar_chart.x[i]
                                    /\ mortality_csv[j].Year = bar_chart.selected_year},
                                mortality_csv, "Deaths")
               /\ bar_chart.Incidence[i]
                    = CellTotal({j \in NumericCells(incidence_csv, "Count") :
                                    /\ incidence_data[j].AgeRange = bar_chart.x[i]
                                    /\ incidence_csv[j].Year = bar_chart.selected_year},
                                incidence_csv, "Count")

\* Both views drawn from a mortality file with a suppressed record and a
\* record of 1 of the same state and age range.
C6_Witness ==
    /\ us_map # None
    /\ bar_chart # None
    /\ us_map.data_type = "mortality"
    /\ \E i \in 1..Len(mortality_csv), j \in 1..Len(mortality_csv) :
           /\ mortality_csv[i].Deaths = Suppressed
           /\ mortality_csv[j].Deaths = <<"1">>
           /\ mortality_csv[i].State = "Texas"
           /\ mortality_csv[j].State = "Texas"
           /\ mortality_csv[i].AgeGroup = mortality_csv[j].AgeGroup
    /\ us_map.merged_data = <<[name |-> "Texas", value |-> 1]>>
    /\ SeqTotal(bar_chart.Deaths) = 1

\* The sum of the values drawn on the map.
MapTotal ==
    SeqTotal([i \in 1..Len(us_map.merged_data) |-> us_map.merged_data[i].value])

\* The sum of the heights of the bars of a data type.
BarTotal(data_type) ==
    IF data_type = "incidence"
    THEN SeqTotal(bar_chart.Incidence)
    ELSE SeqTotal(bar_chart.Deaths)

\* Every record of the data type in the year with a numeric value other
\* than 0 has the name of a state of the clipped shapefile.
NonZeroRecordsMatch(data_type, year) ==
    \A i \in 1..Len(DataOf(data_type)) :
        (/\ DataOf(data_type)[i].Year = year
         /\ DataOf(data_type)[i][ColumnOf(data_type)] # NaN
         /\ DataOf(data_type)[i][ColumnOf(data_type)] # 0)
            => DataOf(data_type)[i].State \in ShapeNames

\* C10: for the same year, the sum of the values drawn on the map never
\* exceeds the sum of the bars of the map's data type, and the two are equal
\* exactly when every record of that data type and year with a non-zero
\* numeric value has the name of a state of the clipped shapefile.
C10_MapTotalWithinBarTotal ==
    (/\ us_map # None
     /\ bar_chart # None
     /\ us_map.selected_year = bar_chart.selected_year) =>
        /\ MapTotal <= BarTotal(us_map.data_type)
        /\ (MapTotal = BarTotal(us_map.data_type))
               <=> NonZeroRecordsMatch(us_map.data_type, us_map.selected_year)

\* Both views drawn for incidence, two bars, and a map total below the bar
\* total because of a record of Alaska.
C10_Witness ==
    /\ us_map # None
    /\ bar_chart # None
    /\ us_map.data_type = "incidence"
    /\ Len(bar_chart.x) = 2
    /\ MapTotal = 1
    /\ BarTotal("incidence") = 2

\* Both views drawn, the totals equal although a record of Alaska with the
\* value 0 is not drawn.
C10_WitnessZero ==
    /\ us_map # None
    /\ bar_chart # None
    /\ MapTotal = BarTotal(us_map.data_type)
    /\ MapTotal > 0
    /\ \E i \in 1..Len(DataOf(us_map.data_type)) :
           /\ DataOf(us_map.data_type)[i].State = "Alaska"
           /\ DataOf(us_map.data_type)[i][ColumnOf(us_map.data_type)] = 0

(***************************************************************************)
(* C4, C8, C9 (Spec).                                                      *)
(***************************************************************************)
\* C4, as claimed: a change of the year slider and a change of the data
\* selector each trigger both the map callback and the bar-chart callback.
C4_BothControlsTriggerBothCallbacks ==
    [][(year_slider' # year_slider \/ data_selector' # data_selector)
           => {"update_map", "update_chart"} \subseteq pending']_vars

\* C4, amended: a change of the year slider triggers both callbacks and a
\* change of the data selector triggers the map callback; once the triggered
\* callbacks have run, the map is the map of the current year and data type
\* and the bar chart is the chart of the current year.
C4_ControlsDriveTheirViews ==
    /\ [][/\ year_slider' # year_slider
                => {"update_map", "update_chart"} \subseteq pending'
          /\ data_selector' # data_selector => "update_map" \in pending']_vars
    /\ [](pending = {} =>
            /\ us_map # None
            /\ bar_chart # None
            /\ us_map.selected_year = year_slider.value
            /\ us_map.data_type = data_selector.value
            /\ bar_chart.selected_year = year_slider.value)

\* Both callbacks have run after the slider was moved to the last year and
\* the selector set to mortality.
C4_Witness ==
    /\ pending = {}
    /\ year_slider.value = year_slider.max
    /\ year_slider.max # year_slider.min
    /\ data_selector.value = "mortality"
    /\ bar_chart # None
    /\ bar_chart.selected_year = year_slider.max

\* The years of the records of the two frames.
DataYears ==
    ColumnValues(mortality_data, "Year") \cup ColumnValues(incidence_data, "Year")

\* C8: the slider starts at min_year and the selector at incidence; the
\* slider runs in steps of 1 from the smallest to the largest year of the two
\* files, so that every year with a record is selectable and the selected
\* year stays in that range, and every mark is a year of the range at an
\* even offset from min_year.
C8_SliderSpansTheYears ==
    /\ year_slider.value = year_slider.min
    /\ data_selector.value = "incidence"
    /\ [](/\ year_slider.min \in DataYears
          /\ year_slider.max \in DataYears
          /\ \A y \in DataYears : year_slider.min <= y /\ y <= year_slider.max
          /\ year_slider.step = 1
          /\ DataYears \subseteq SliderValues
          /\ year_slider.value \in year_slider.min..year_slider.max
          /\ data_selector.value \in data_selector.options
          /\ \A m \in year_slider.marks :
                 /\ m \in year_slider.min..year_slider.max
                 /\ (m - year_slider.min) % 2 = 0)

\* The slider at the last of three years, two of them marked, with the
\* first year found in the incidence file only.
C8_Witness ==
    /\ year_slider.value = year_slider.max
    /\ year_slider.max = year_slider.min + 2
    /\ Cardinality(year_slider.marks) = 2
    /\ year_slider.min \notin ColumnValues(mortality_data, "Year")

\* C9: no step changes the loaded data (the files, the two frames, the two
\* aggregated frames, the shapefile), and a drawn figure is the figure of
\* its year and data type on the data as loaded, whatever the controls did
\* before.
C9_CallbacksKeepTheData ==
    /\ [][UNCHANGED data_vars]_vars
    /\ [](/\ mortality_data = LoadMortality(mortality_csv)
          /\ incidence_data = LoadIncidence(incidence_csv)
          /\ us_map # None
                => us_map = update_map(us_map.selected_year, us_map.data_type)
          /\ bar_chart # None
                => bar_chart = update_chart(bar_chart.selected_year))

\* The map redrawn for incidence in the first year after the slider and the
\* selector were moved away and back, with the chart still to be redrawn.
C9_Witness ==
    /\ us_map # None
    /\ bar_chart # None
    /\ pending = {"update_chart"}
    /\ us_map.selected_year = year_slider.min
    /\ us_map.data_type = "incidence"
    /\ bar_chart.selected_year # year_slider.value
    /\ year_slider.value = year_slider.min

====
